---- MODULE Spec2Model ----
(***************************************************************************)
(* Persistence and integrity-repair subsystem of CourseManagementSystem    *)
(* (src/app.js): the live dataset, the two localStorage slots, the backup  *)
(* throttle, the timers and the page-lifecycle handlers.                   *)
(*                                                                         *)
(* Conventions for JavaScript values:                                      *)
(*   - a top-level collection is [k, items]; k = "arr" is an array,        *)
(*     "other" a truthy non-array, "falsy" a present falsy value (null, 0, *)
(*     ""), "absent" a missing key (undefined);                            *)
(*   - an array entry is a record; nul = TRUE is a null entry;             *)
(*   - a falsy id (undefined, null, 0) is NoId; an undefined numeric field *)
(*     is Undef; NaN (parseInt of an empty select) is NaNId;               *)
(*   - lastSaveTime = NoTime is null; the clock is in milliseconds.        *)
(***************************************************************************)
EXTENDS Integers, Sequences, FiniteSets, TLC

\* ------------------------------------------------------------------ bounds
MaxWriteFailures == 1
MaxEvents == 2
MaxLen == 2
MaxPasses == 2
MaxTimerEvents == 4

\* ------------------------------------------------------- program constants
BackupIntervalMs == 300000
AutoSaveMs == 30000
DebounceMs == 2000

NoTime == 0
NoId == 0
NaNId == -1
Undef == -1

\* ------------------------------------------------------------ entity shapes
Course(id, iid, iname, cap, enr, pop) ==
    [nul |-> FALSE, id |-> id, instructorId |-> iid, instructor |-> iname,
     capacity |-> cap, enrolled |-> enr, popularity |-> pop]

Student(id, name, hasCourses, courses, level) ==
    [nul |-> FALSE, id |-> id, name |-> name, hasCourses |-> hasCourses,
     courses |-> courses, level |-> level]

Instructor(id, name, hasCourses, courses, rating) ==
    [nul |-> FALSE, id |-> id, name |-> name, hasCourses |-> hasCourses,
     courses |-> courses, rating |-> rating]

Enrollment(sid, cid, status, aiSuggested, progress) ==
    [nul |-> FALSE, studentId |-> sid, courseId |-> cid, status |-> status,
     aiSuggested |-> aiSuggested, progress |-> progress]

NullCourse == [Course(NoId, NoId, "", 0, 0, Undef) EXCEPT !.nul = TRUE]
NullStudent == [Student(NoId, "", FALSE, <<>>, "") EXCEPT !.nul = TRUE]
NullInstructor == [Instructor(NoId, "", FALSE, <<>>, Undef) EXCEPT !.nul = TRUE]
NullEnrollment == [Enrollment(NoId, NoId, "", "undefined", Undef) EXCEPT !.nul = TRUE]

Arr(items) == [k |-> "arr", items |-> items]
Absent == [k |-> "absent", items |-> <<>>]
Falsy == [k |-> "falsy", items |-> <<>>]
Other == [k |-> "other", items |-> <<>>]

DefaultAiSettings == [k |-> "obj", enabled |-> TRUE]
AbsentAiSettings == [k |-> "absent", enabled |-> FALSE]

Keys == {"courses", "students", "instructors", "categories", "enrollments", "aiSettings"}

\* this.data as the constructor leaves it
ConstructorData ==
    [courses |-> Arr(<<>>), students |-> Arr(<<>>), instructors |-> Arr(<<>>),
     categories |-> Arr(<<>>), enrollments |-> Arr(<<>>),
     aiSettings |-> DefaultAiSettings]

\* the seed fixture
GetInitialData ==
    [courses |-> Arr(<<
        Course(1, 1, "Sarah Johnson", 30, 25, 85),
        Course(2, 2, "Michael Chen", 20, 18, 92),
        Course(3, 3, "Dr. Emily Rodriguez", 25, 22, 88),
        Course(4, 4, "Alex Thompson", 35, 31, 76),
        Course(5, 5, "James Wilson", 15, 12, 94) >>),
     students |-> Arr(<<
        Student(1, "John Smith", TRUE, <<1, 3>>, "Intermediate"),
        Student(2, "Emma Wilson", TRUE, <<1, 2>>, "Beginner"),
        Student(3, "David Brown", TRUE, <<3, 4>>, "Advanced"),
        Student(4, "Sophie Davis", TRUE, <<2, 4>>, "Intermediate"),
        Student(5, "Ryan Garcia", TRUE, <<1, 5>>, "Beginner") >>),
     instructors |-> Arr(<<
        Instructor(1, "Sarah Johnson", TRUE, <<1>>, 48),
        Instructor(2, "Michael Chen", TRUE, <<2>>, 49),
        Instructor(3, "Dr. Emily Rodriguez", TRUE, <<3>>, 50),
        Instructor(4, "Alex Thompson", TRUE, <<4>>, 47),
        Instructor(5, "James Wilson", TRUE, <<5>>, 48) >>),
     categories |-> Arr(<<1, 2, 3, 4>>),
     enrollments |-> Arr(<<
        Enrollment(1, 1, "Active", "false", 60),
        Enrollment(1, 3, "Active", "true", 45),
        Enrollment(2, 1, "Active", "false", 70),
        Enrollment(2, 2, "Active", "true", 30),
        Enrollment(3, 3, "Active", "false", 80),
        Enrollment(3, 4, "Active", "false", 55),
        Enrollment(4, 2, "Active", "true", 40),
        Enrollment(4, 4, "Active", "false", 25),
        Enrollment(5, 1, "Active", "false", 35),
        Enrollment(5, 5, "Active", "true", 20) >>),
     aiSettings |-> DefaultAiSettings]

\* { ...base, ...over }: a key of over that is present replaces base's
Merge(base, over) ==
    [key \in Keys |-> IF over[key].k = "absent" THEN base[key] ELSE over[key]]

\* ------------------------------------------------------------ repair pass
\* the values Math.random() can contribute to one repair pass
Rnd == [popularity : {60, 99}, rating : {40, 50},
        aiSuggested : {"true", "false"}, progress : {0, 99}]

CoerceArray(c) == IF c.k = "arr" THEN c ELSE Arr(<<>>)

\* index of the first null entry of a sequence, 0 when there is none
FirstNull(items) ==
    IF \E i \in DOMAIN items : items[i].nul
    THEN CHOOSE i \in DOMAIN items :
            items[i].nul /\ \A j \in 1..(i - 1) : ~items[j].nul
    ELSE 0

\* a course repair that draws popularity anew on every pass
RepairCourse_Redraw(c, index, rnd) ==
    [c EXCEPT !.id = IF @ = NoId THEN index ELSE @,
              !.popularity = rnd.popularity]

RepairCourse(c, index, rnd) ==
    [c EXCEPT !.id = IF @ = NoId THEN index ELSE @,
              !.popularity = IF @ = Undef THEN rnd.popularity ELSE @]

\* a student repair that leaves a missing id missing
RepairStudent_NoBackfill(s, index) ==
    [s EXCEPT !.courses = IF s.hasCourses THEN @ ELSE <<>>,
              !.hasCourses = TRUE,
              !.level = IF @ = "" THEN "Beginner" ELSE @]

RepairStudent(s, index) ==
    [s EXCEPT !.id = IF @ = NoId THEN index ELSE @,
              !.courses = IF s.hasCourses THEN @ ELSE <<>>,
              !.hasCourses = TRUE,
              !.level = IF @ = "" THEN "Beginner" ELSE @]

RepairInstructor(i, index, rnd) ==
    [i EXCEPT !.id = IF @ = NoId THEN index ELSE @,
              !.courses = IF i.hasCourses THEN @ ELSE <<>>,
              !.hasCourses = TRUE,
              !.rating = IF @ = Undef THEN rnd.rating ELSE @]

RepairEnrollment(e, rnd) ==
    [e EXCEPT !.aiSuggested = IF @ = "undefined" THEN rnd.aiSuggested ELSE @,
              !.progress = IF @ = Undef THEN rnd.progress ELSE @]

\* forEach over items, repaired[i] being what the callback makes of entry i;
\* it stops at the first null entry, which raises: the entries before it have
\* been repaired in place
ForEachUntilNull(items, repaired) ==
    LET n == FirstNull(items)
    IN [i \in DOMAIN items |->
            IF n = 0 \/ i < n THEN repaired[i] ELSE items[i]]

\* a student check that accepts every row
HasValidStudent_Always(d, e) == TRUE

HasValidStudent(d, e) ==
    \E i \in DOMAIN d.students.items : d.students.items[i].id = e.studentId

HasValidCourse(d, e) ==
    \E i \in DOMAIN d.courses.items : d.courses.items[i].id = e.courseId

\* validateAndRepairData on dataset d; ok = FALSE when it raised a TypeError
\* on a null entry, data then being this.data as the pass left it
ValidateAndRepairData(d, rnd) ==
    LET d1 == [d EXCEPT !.courses = CoerceArray(@),
                        !.students = CoerceArray(@),
                        !.instructors = CoerceArray(@),
                        !.categories = CoerceArray(@),
                        !.enrollments = CoerceArray(@),
                        !.aiSettings = IF @.k = "obj" THEN @ ELSE DefaultAiSettings]
        RC(xs) == [i \in DOMAIN xs |-> RepairCourse(xs[i], i, rnd)]
        RS(xs) == [i \in DOMAIN xs |-> RepairStudent(xs[i], i)]
        RI(xs) == [i \in DOMAIN xs |-> RepairInstructor(xs[i], i, rnd)]
        RE(xs) == [i \in DOMAIN xs |-> RepairEnrollment(xs[i], rnd)]
        d2 == [d1 EXCEPT !.courses.items = ForEachUntilNull(@, RC(@))]
        d3 == [d2 EXCEPT !.students.items = ForEachUntilNull(@, RS(@))]
        d4 == [d3 EXCEPT !.instructors.items = ForEachUntilNull(@, RI(@))]
        d5 == [d4 EXCEPT !.enrollments.items = ForEachUntilNull(@, RE(@))]
        Keep(e) == HasValidStudent(d4, e) /\ HasValidCourse(d4, e)
        d6 == [d5 EXCEPT !.enrollments.items = SelectSeq(@, Keep)]
    IN  IF FirstNull(d1.courses.items) # 0 THEN [ok |-> FALSE, data |-> d2]
        ELSE IF FirstNull(d2.students.items) # 0 THEN [ok |-> FALSE, data |-> d3]
        ELSE IF FirstNull(d3.instructors.items) # 0 THEN [ok |-> FALSE, data |-> d4]
        ELSE IF FirstNull(d4.enrollments.items) # 0 THEN [ok |-> FALSE, data |-> d5]
        ELSE [ok |-> TRUE, data |-> d6]

ActiveCount(d, cid) ==
    Cardinality({i \in DOMAIN d.enrollments.items :
                    /\ d.enrollments.items[i].courseId = cid
                    /\ d.enrollments.items[i].status = "Active"})

UpdateEnrollmentCounts(d) ==
    LET cs == d.courses.items
    IN  [d EXCEPT !.courses.items =
            [i \in DOMAIN cs |-> [cs[i] EXCEPT !.enrolled = ActiveCount(d, cs[i].id)]]]

\* ------------------------------------------------- storage and serialization
\* a dataset none of whose keys is present: the document of a slot that holds
\* no JSON object
NoDoc ==
    [courses |-> Absent, students |-> Absent, instructors |-> Absent,
     categories |-> Absent, enrollments |-> Absent, aiSettings |-> AbsentAiSettings]

\* what localStorage.getItem can return: null ("absent"), the empty string
\* ("empty"), text JSON.parse rejects ("garbage"), JSON of a non-object
\* ("nonobj"), JSON of an object ("json", with the parsed document)
AbsentSlot == [t |-> "absent", doc |-> NoDoc]
EmptySlot == [t |-> "empty", doc |-> NoDoc]
GarbageSlot == [t |-> "garbage", doc |-> NoDoc]
NonObjectSlot == [t |-> "nonobj", doc |-> NoDoc]
JsonSlot(doc) == [t |-> "json", doc |-> doc]

\* JSON.stringify(this.data): NaN is written as null, undefined members are
\* left out (they stay Undef / NoId / "absent" in the parsed document)
JsonStringify(d) ==
    LET cs == d.courses.items
        ss == d.students.items
        es == d.enrollments.items
        Num(x) == IF x = NaNId THEN NoId ELSE x
    IN  JsonSlot([d EXCEPT
            !.courses.items =
                [i \in DOMAIN cs |-> [cs[i] EXCEPT !.instructorId = Num(@)]],
            !.students.items =
                [i \in DOMAIN ss |->
                    [ss[i] EXCEPT !.courses = [j \in DOMAIN @ |-> Num(@[j])]]],
            !.enrollments.items =
                [i \in DOMAIN es |->
                    [es[i] EXCEPT !.studentId = Num(@), !.courseId = Num(@)]]])

Truthy(c) == c.k \in {"arr", "other"}

\* the structural sniff of loadFromStorage
Sniff(doc) == Truthy(doc.courses) /\ Truthy(doc.students) /\ Truthy(doc.instructors)

Miss == [hit |-> FALSE, doc |-> NoDoc]

LoadFromStorage(avail, slot) ==
    IF ~avail THEN Miss
    ELSE IF slot.t = "json" /\ Sniff(slot.doc) THEN [hit |-> TRUE, doc |-> slot.doc]
    ELSE Miss

\* a backup condition that holds on every save
BackupDue_Always(force, lst, t) == TRUE

\* the backup condition of saveData
BackupDue(force, lst, t) ==
    force \/ lst = NoTime \/ t - lst > BackupIntervalMs

\* outcomes of the localStorage.setItem calls of one saveData: all succeed
\* ("ok"), the primary write raises ("pfail"), the backup write raises after
\* the primary write succeeded ("bfail")
WriteOutcomes == {"ok", "pfail", "bfail"}

NoSave == [called |-> FALSE, force |-> FALSE, ret |-> FALSE, wroteP |-> FALSE,
           wroteB |-> FALSE, failed |-> FALSE, at |-> NoTime,
           bkSlotBefore |-> "absent", bkTimeBefore |-> NoTime]

\* the try block of saveData(force) at time t on s = [data, primary, backup,
\* lastSaveTime, backupTime]; rec describes the call (backupTime and rec are
\* history)
WriteSlots(s, force, t, outcome) ==
    LET str == JsonStringify(s.data)
        due == BackupDue(force, s.lastSaveTime, t)
        base == [NoSave EXCEPT !.called = TRUE, !.force = force, !.at = t,
                               !.bkSlotBefore = s.backup.t,
                               !.bkTimeBefore = s.backupTime]
    IN  IF outcome = "pfail" THEN [s EXCEPT !.rec = [base EXCEPT !.failed = TRUE]]
        ELSE IF due /\ outcome = "bfail"
             THEN [s EXCEPT !.primary = str,
                            !.rec = [base EXCEPT !.wroteP = TRUE, !.failed = TRUE]]
        ELSE [s EXCEPT !.primary = str,
                       !.backup = IF due THEN str ELSE @,
                       !.backupTime = IF due THEN t ELSE @,
                       !.lastSaveTime = t,
                       !.rec = [base EXCEPT !.wroteP = TRUE, !.wroteB = due,
                                            !.ret = TRUE]]

\* saveData without its availability gate
SaveData_NoGate(s, avail, force, t, outcome) == WriteSlots(s, force, t, outcome)

\* saveData(force)
SaveData(s, avail, force, t, outcome) ==
    IF ~avail
    THEN [s EXCEPT !.rec = [NoSave EXCEPT !.called = TRUE, !.force = force, !.at = t,
                                          !.bkSlotBefore = s.backup.t,
                                          !.bkTimeBefore = s.backupTime]]
    ELSE WriteSlots(s, force, t, outcome)

\* loadData looking at the backup slot first
LoadSource_BackupFirst(avail, prim, back) ==
    LET p == LoadFromStorage(avail, prim)
        b == LoadFromStorage(avail, back)
    IN  IF b.hit THEN [src |-> "backup", doc |-> b.doc]
        ELSE IF p.hit THEN [src |-> "primary", doc |-> p.doc]
        ELSE [src |-> "seed", doc |-> GetInitialData]

\* the source loadData settles on: primary, else backup, else the seed
LoadSource(avail, prim, back) ==
    LET p == LoadFromStorage(avail, prim)
        b == LoadFromStorage(avail, back)
    IN  IF p.hit THEN [src |-> "primary", doc |-> p.doc]
        ELSE IF b.hit THEN [src |-> "backup", doc |-> b.doc]
        ELSE [src |-> "seed", doc |-> GetInitialData]

\* loadData at time t; src is history: the path it took
LoadData(s, avail, t, rnd, outcome) ==
    LET got == LoadSource(avail, s.primary, s.backup)
        s1 == IF got.src = "seed" THEN SaveData(s, avail, FALSE, t, outcome) ELSE s
        merged == Merge(s1.data, got.doc)
        rep == ValidateAndRepairData(merged, rnd)
    IN  IF rep.ok
        THEN [s1 EXCEPT !.data = UpdateEnrollmentCounts(rep.data),
                        !.lastSaveTime = t,
                        !.src = got.src]
        ELSE [SaveData([s1 EXCEPT !.data = Merge(rep.data, GetInitialData)],
                       avail, FALSE, t, outcome)
                EXCEPT !.src = "recovery"]

\* ---------------------------------------------------------- event handlers
\* a beforeunload listener that does not force the save
OnBeforeUnload_NotForced(s, avail, t, outcome) == SaveData(s, avail, FALSE, t, outcome)

\* the beforeunload listener
OnBeforeUnload(s, avail, t, outcome) == SaveData(s, avail, TRUE, t, outcome)

\* the visibilitychange listener; hid is document.hidden after the change
OnVisibilityChange(s, avail, hid, t, outcome) ==
    IF hid THEN SaveData(s, avail, TRUE, t, outcome) ELSE s

\* a timer callback that flips the AI flag of the dataset before saving
OnTimer_Touching(s, avail, t, outcome) ==
    SaveData([s EXCEPT !.data.aiSettings.enabled = ~@], avail, FALSE, t, outcome)

\* the setInterval callback of startAutoSave and the debounced callback
OnTimer(s, avail, t, outcome) == SaveData(s, avail, FALSE, t, outcome)

\* toggleAI: enabled is this.aiEnabled after the toggle
ToggleAI(s, avail, enabled, t, outcome) ==
    SaveData([s EXCEPT !.data.aiSettings.enabled = enabled], avail, FALSE, t, outcome)

\* ------------------------------------------------- documents found in storage
DocA ==
    [courses |-> Arr(<< Course(9, NoId, "Unassigned", 2, 0, Undef) >>),
     students |-> Arr(<< Student(1, "Ann", TRUE, <<9>>, "Advanced"),
                         Student(2, "Bob", FALSE, <<>>, "") >>),
     instructors |-> Arr(<< Instructor(1, "Kim", TRUE, <<>>, 45) >>),
     categories |-> Absent,
     enrollments |-> Arr(<< Enrollment(1, 9, "Active", "false", 10),
                            Enrollment(999, 9, "Active", "true", 30),
                            Enrollment(2, 9, "Active", "true", 20) >>),
     aiSettings |-> AbsentAiSettings]

DocB ==
    [courses |-> Arr(<< Course(NoId, 1, "Kim", 5, 3, 70) >>),
     students |-> Arr(<< Student(NoId, "Cyd", TRUE, <<1>>, "Beginner") >>),
     instructors |-> Arr(<< Instructor(NoId, "Kim", FALSE, <<>>, 45) >>),
     categories |-> Arr(<<1>>),
     enrollments |-> Arr(<< Enrollment(1, 1, "Completed", "false", 100),
                            Enrollment(1, 1, "Active", "false", 5) >>),
     aiSettings |-> [k |-> "obj", enabled |-> FALSE]]

\* passes the sniff; the repair pass raises on the null course
DocNull ==
    [NoDoc EXCEPT !.courses = Arr(<< NullCourse >>),
                  !.students = Arr(<< Student(1, "Ann", TRUE, <<>>, "Advanced") >>),
                  !.instructors = Arr(<<>>)]

\* fails the sniff: no courses key
DocNoCourses ==
    [NoDoc EXCEPT !.students = Arr(<<>>), !.instructors = Arr(<<>>)]

\* passes the sniff with collections that are not arrays
DocOdd ==
    [NoDoc EXCEPT !.courses = Other, !.students = Other, !.instructors = Arr(<<>>),
                  !.enrollments = Falsy]

\* the contents <<primary, backup>> the two slots can start with
InitStores ==
    { <<AbsentSlot, AbsentSlot>>,
      <<AbsentSlot, JsonSlot(DocA)>>,
      <<AbsentSlot, JsonSlot(DocNull)>>,
      <<EmptySlot, JsonSlot(DocB)>>,
      <<GarbageSlot, JsonSlot(DocB)>>,
      <<GarbageSlot, JsonSlot(DocNoCourses)>>,
      <<NonObjectSlot, JsonSlot(DocA)>>,
      <<JsonSlot(DocNoCourses), JsonSlot(DocB)>>,
      <<JsonSlot(DocA), AbsentSlot>>,
      <<JsonSlot(DocA), JsonSlot(DocB)>>,
      <<JsonSlot(DocOdd), JsonSlot(DocB)>>,
      <<JsonSlot(DocNull), JsonSlot(DocB)>>,
      <<JsonSlot(DocNull), AbsentSlot>> }

\* the time that can pass between one handler and the next
Delays == {0, AutoSaveMs, BackupIntervalMs}

\* ------------------------------------------------------------------- state
VARIABLES
    phase,              \* "boot" (constructed), "running" (init done), "unloaded" (page left)
    storageAvailable,   \* this.storageAvailable
    data,               \* this.data, the live dataset
    aiEnabled,          \* this.aiEnabled
    lastSaveTime,       \* this.lastSaveTime
    primary, backup,    \* the two localStorage slots
    now,                \* Date.now() when the last handler ran
    startPending,       \* init's setTimeout(..., 100) that calls startAutoSave
    autoSaveInterval,   \* this.autoSaveInterval: [active, due]
    saveTimeout,        \* the debounce timer: [active, due]
    hidden,             \* document.hidden
    store0,             \* history: <<primary, backup>> as init() found them
    ev,                 \* history: the last handler that ran, [op, saveCalled, src, doc]
    lastSave, prevSave, \* history: the last saveData call and the one before it
    backupTime,         \* history: when the backup slot was last written
    failures, events,   \* bound counters
    temp,               \* the localStorage slot of storageKeys.temp
    pending,            \* the callback showConfirmModal put on the confirm button
    before,             \* history: this.data when the last handler began
    assigned,           \* history: per collection, the highest id it has held
    scheduled,          \* the browser's timer table: [timeouts, intervals]
    burst               \* history: the input events since the last pause

page == <<phase, storageAvailable, aiEnabled, hidden>>
mem == <<data, lastSaveTime, primary, backup, temp>>
timers == <<startPending, autoSaveInterval, saveTimeout, scheduled>>
hist == <<store0, ev, lastSave, prevSave, backupTime, before, assigned, burst>>

vars == <<page, mem, timers, hist, failures, events, now, pending>>

NoTimer == [active |-> FALSE, due |-> NoTime]

NoEvent == [op |-> "none", saveCalled |-> FALSE, src |-> "none", doc |-> NoDoc]

\* no confirm modal is open
NoPending == [kind |-> "none", id |-> NoId, studentId |-> NoId, courseId |-> NoId]

\* no callback is scheduled: timeouts is the set of times at which a pending
\* debounce callback is due, intervals the number of running setInterval timers
NoneScheduled == [timeouts |-> {}, intervals |-> 0]

\* no input event yet: last is the time of the latest input event, size the
\* number of events of its burst (each less than DebounceMs after the one
\* before), saves the debounce callbacks that ran since
NoBurst == [last |-> NoTime, size |-> 0, saves |-> 0]

\* a debouncedSave that sets its timeout without clearing the pending one
DebouncedSave_NoClear(sched, handle, t) ==
    [sched |-> [sched EXCEPT !.timeouts = @ \cup {t + DebounceMs}],
     handle |-> [active |-> TRUE, due |-> t + DebounceMs]]

\* debouncedSave at time t: clearTimeout(saveTimeout), then setTimeout(2000)
DebouncedSave(sched, handle, t) ==
    [sched |-> [sched EXCEPT !.timeouts =
                    (@ \ (IF handle.active THEN {handle.due} ELSE {}))
                        \cup {t + DebounceMs}],
     handle |-> [active |-> TRUE, due |-> t + DebounceMs]]

\* the burst once an input event has arrived at time t
Extended(b, t) ==
    [last |-> t,
     size |-> IF b.last # NoTime /\ t - b.last < DebounceMs THEN b.size + 1 ELSE 1,
     saves |-> 0]

\* no id has been held yet
NoneAssigned == [key \in {"courses", "students", "instructors"} |-> NoId]

\* the highest ids on record once dataset d is live
HighWater(a, d) ==
    [key \in DOMAIN a |->
        LET ids == {a[key]} \cup {d[key].items[i].id : i \in DOMAIN d[key].items}
        IN  CHOOSE m \in ids : \A x \in ids : x <= m]

\* what the slot of storageKeys.temp can start with
InitTemp == {AbsentSlot, JsonSlot(DocA)}

Init ==
    /\ phase = "boot"
    /\ storageAvailable = FALSE
    /\ data = ConstructorData
    /\ aiEnabled = TRUE
    /\ lastSaveTime = NoTime
    /\ store0 \in InitStores
    /\ primary = store0[1]
    /\ backup = store0[2]
    /\ now = 1
    /\ startPending = FALSE
    /\ autoSaveInterval = NoTimer
    /\ saveTimeout = NoTimer
    /\ hidden = FALSE
    /\ ev = NoEvent
    /\ lastSave = NoSave
    /\ prevSave = NoSave
    /\ backupTime = NoTime
    /\ failures = 0
    /\ events = 0
    /\ temp \in IF Sniff(store0[1].doc) \/ Sniff(store0[2].doc)
                THEN {AbsentSlot} ELSE InitTemp
    /\ pending = NoPending
    /\ before = ConstructorData
    /\ assigned = NoneAssigned
    /\ scheduled = NoneScheduled
    /\ burst = NoBurst

Cur ==
    [data |-> data, primary |-> primary, backup |-> backup,
     lastSaveTime |-> lastSaveTime, backupTime |-> backupTime,
     rec |-> NoSave, src |-> "none", doc |-> NoDoc]

\* the write outcomes the failure budget still allows
Outcomes == IF failures < MaxWriteFailures THEN WriteOutcomes ELSE {"ok"}

\* a handler may still run within the event budget
MayRun == phase = "running" /\ events < MaxEvents

\* the handler named op ran at time t and left r
Commit(r, op, t) ==
    /\ data' = r.data
    /\ primary' = r.primary
    /\ backup' = r.backup
    /\ lastSaveTime' = r.lastSaveTime
    /\ backupTime' = r.backupTime
    /\ ev' = [op |-> op, saveCalled |-> r.rec.called, src |-> r.src, doc |-> r.doc]
    /\ lastSave' = IF r.rec.called THEN r.rec ELSE lastSave
    /\ prevSave' = IF r.rec.called THEN lastSave ELSE prevSave
    /\ store0' = store0
    /\ failures' = failures + (IF r.rec.failed THEN 1 ELSE 0)
    /\ events' = IF op = "load" THEN events ELSE events + 1
    /\ now' = t
    /\ temp' = temp
    /\ before' = data
    /\ assigned' = HighWater(IF op = "import" /\ r.src = "imported"
                              THEN NoneAssigned ELSE assigned, r.data)
    /\ burst' = [burst EXCEPT !.saves = IF op = "debounce" THEN @ + 1 ELSE @]

\* init(): setupDataPersistence (the probe), loadData, initializeAI
InitApp ==
    /\ phase = "boot"
    /\ \E avail \in BOOLEAN, rnd \in Rnd, outcome \in Outcomes :
        LET r == LoadData(Cur, avail, now, rnd, outcome)
        IN  /\ storageAvailable' = avail
            /\ Commit(r, "load", now)
            /\ aiEnabled' = r.data.aiSettings.enabled
    /\ phase' = "running"
    /\ startPending' = TRUE
    /\ UNCHANGED <<hidden, autoSaveInterval, saveTimeout, scheduled, pending>>

\* the timeout init() set, 100 ms after it: startAutoSave
StartAutoSave ==
    /\ phase = "running"
    /\ startPending
    /\ startPending' = FALSE
    /\ autoSaveInterval' = [active |-> TRUE, due |-> now + AutoSaveMs]
    /\ scheduled' = [scheduled EXCEPT !.intervals =
                        IF autoSaveInterval.active THEN @ ELSE @ + 1]
    /\ ev' = [NoEvent EXCEPT !.op = "startAutoSave"]
    /\ UNCHANGED <<page, mem, saveTimeout, store0, lastSave, prevSave, backupTime,
                   before, assigned, burst, failures, events, now, pending>>

\* the times at which the next handler can run: the page has long started its
\* periodic timer before a delay of Delays has passed
Times == {now + d : d \in IF startPending THEN {0} ELSE Delays}

AutoSaveTick ==
    /\ MayRun
    /\ autoSaveInterval.active
    /\ \E t \in Times, outcome \in Outcomes :
        /\ t >= autoSaveInterval.due
        /\ Commit(OnTimer(Cur, storageAvailable, t, outcome), "autosave", t)
        /\ autoSaveInterval' = [autoSaveInterval EXCEPT !.due = t + AutoSaveMs]
    /\ UNCHANGED <<page, startPending, saveTimeout, scheduled, pending>>

\* an input or change event on the document: debouncedSave
InputEvent ==
    /\ MayRun
    /\ \E t \in Times :
        /\ saveTimeout' = DebouncedSave(scheduled, saveTimeout, t).handle
        /\ scheduled' = DebouncedSave(scheduled, saveTimeout, t).sched
        /\ burst' = Extended(burst, t)
        /\ now' = t
    /\ events' = events + 1
    /\ ev' = [NoEvent EXCEPT !.op = "input"]
    /\ UNCHANGED <<page, mem, startPending, autoSaveInterval, store0, lastSave,
                   prevSave, backupTime, before, assigned, failures, pending>>

DebounceFire ==
    /\ MayRun
    /\ saveTimeout.active
    /\ \E t \in Times, outcome \in Outcomes :
        /\ t >= saveTimeout.due
        /\ Commit(OnTimer(Cur, storageAvailable, t, outcome), "debounce", t)
    /\ saveTimeout' = NoTimer
    /\ scheduled' = [scheduled EXCEPT !.timeouts = @ \ {saveTimeout.due}]
    /\ UNCHANGED <<page, startPending, autoSaveInterval, pending>>

VisibilityChange ==
    /\ MayRun
    /\ hidden' = ~hidden
    /\ \E t \in Times, outcome \in Outcomes :
        Commit(OnVisibilityChange(Cur, storageAvailable, hidden', t, outcome),
               IF hidden' THEN "hidden" ELSE "visible", t)
    /\ UNCHANGED <<phase, storageAvailable, aiEnabled, timers, pending>>

BeforeUnload ==
    /\ MayRun
    /\ \E t \in Times, outcome \in Outcomes :
        Commit(OnBeforeUnload(Cur, storageAvailable, t, outcome), "unload", t)
    /\ phase' = "unloaded"
    /\ UNCHANGED <<storageAvailable, aiEnabled, hidden, timers, pending>>

DoToggleAI ==
    /\ MayRun
    /\ aiEnabled' = ~aiEnabled
    /\ \E t \in Times, outcome \in Outcomes :
        Commit(ToggleAI(Cur, storageAvailable, aiEnabled', t, outcome), "toggleAI", t)
    /\ UNCHANGED <<phase, storageAvailable, hidden, timers, pending>>

Next ==
    \/ InitApp
    \/ StartAutoSave
    \/ AutoSaveTick
    \/ InputEvent
    \/ DebounceFire
    \/ VisibilityChange
    \/ BeforeUnload
    \/ DoToggleAI

Spec == Init /\ [][Next]_vars

\* ------------------------------------------- the repair pass on its own
\* the sequences of at most MaxLen entries drawn from S
SeqsUpTo(S) == UNION {[1..n -> S] : n \in 0..MaxLen}

\* the entries a collection handed to validateAndRepairData can hold: with and
\* without id, with and without the fields repair fills in, and null
CourseEntries ==
    { Course(NoId, NoId, "Unassigned", 2, 7, Undef),
      Course(2, 1, "Kim", 3, 0, 70),
      NullCourse }

StudentEntries ==
    { Student(NoId, "Ann", FALSE, <<>>, ""),
      Student(2, "Bob", TRUE, <<2>>, "Advanced") }

EnrollmentEntries ==
    { Enrollment(1, 1, "Active", "undefined", Undef),
      Enrollment(2, 2, "Completed", "true", 50),
      NullEnrollment }

\* instructors and aiSettings, varied together
StaffVariants ==
    { <<Arr(<<>>), AbsentAiSettings>>,
      <<Arr(<< Instructor(NoId, "Kim", FALSE, <<>>, Undef) >>),
        [k |-> "obj", enabled |-> FALSE]>>,
      <<Arr(<< Instructor(3, "Lee", TRUE, <<2>>, 45), NullInstructor >>),
        AbsentAiSettings>> }

\* the datasets validateAndRepairData is applied to
RepairInputs ==
    { [courses |-> c, students |-> Arr(st), instructors |-> sv[1],
       categories |-> Absent, enrollments |-> e, aiSettings |-> sv[2]] :
        c \in {Other} \cup {Arr(x) : x \in SeqsUpTo(CourseEntries)},
        st \in SeqsUpTo(StudentEntries),
        sv \in StaffVariants,
        e \in {Falsy} \cup {Arr(x) : x \in SeqsUpTo(EnrollmentEntries)} }

\* the Math.random() values a pass is run with: the two extremes
RepairRnd ==
    { [popularity |-> 60, rating |-> 40, aiSuggested |-> "true", progress |-> 0],
      [popularity |-> 99, rating |-> 50, aiSuggested |-> "false", progress |-> 99] }

RepairInit ==
    /\ phase = "repair"
    /\ storageAvailable = FALSE
    /\ data \in RepairInputs
    /\ aiEnabled = TRUE
    /\ lastSaveTime = NoTime
    /\ store0 = <<AbsentSlot, AbsentSlot>>
    /\ primary = AbsentSlot
    /\ backup = AbsentSlot
    /\ temp = AbsentSlot
    /\ now = 1
    /\ startPending = FALSE
    /\ autoSaveInterval = NoTimer
    /\ saveTimeout = NoTimer
    /\ hidden = FALSE
    /\ ev = NoEvent
    /\ lastSave = NoSave
    /\ prevSave = NoSave
    /\ backupTime = NoTime
    /\ failures = 0
    /\ events = 0
    /\ pending = NoPending
    /\ before = data
    /\ assigned = NoneAssigned
    /\ scheduled = NoneScheduled
    /\ burst = NoBurst

\* one call of validateAndRepairData on this.data
RepairPass ==
    /\ phase = "repair"
    /\ events < MaxPasses
    /\ \E rnd \in RepairRnd :
        LET r == ValidateAndRepairData(data, rnd)
        IN  /\ data' = r.data
            /\ ev' = [NoEvent EXCEPT !.op = "repair",
                                     !.src = IF r.ok THEN "ok" ELSE "raised"]
    /\ before' = data
    /\ events' = events + 1
    /\ UNCHANGED <<page, lastSaveTime, primary, backup, temp, timers, store0,
                   lastSave, prevSave, backupTime, assigned, burst, failures, now,
                   pending>>

RepairNext == RepairPass

RepairSpec == RepairInit /\ [][RepairNext]_vars

\* ------------------------------------------- CRUD, import and export handlers
\* The handlers below are written for a dataset whose entries are objects and
\* whose students carry a courses array (what load and a completed import
\* leave); x === y on numbers: NaN equals nothing, itself included.
StrictEq(x, y) == x = y /\ x # NaNId

\* array.findIndex(item => item.id === id) + 1: 0 when there is none
FindIndex(items, id) ==
    IF \E i \in DOMAIN items : StrictEq(items[i].id, id)
    THEN CHOOSE i \in DOMAIN items :
            /\ StrictEq(items[i].id, id)
            /\ \A j \in 1..(i - 1) : ~StrictEq(items[j].id, id)
    ELSE 0

\* array.includes(x): SameValueZero, under which NaN is found
Includes(list, x) == \E i \in DOMAIN list : list[i] = x

\* list.filter(y => y !== x)
Without(list, x) ==
    LET Keep(y) == ~StrictEq(y, x) IN SelectSeq(list, Keep)

SeqMax(items) ==
    CHOOSE m \in {items[i].id : i \in DOMAIN items} :
        \A i \in DOMAIN items : items[i].id <= m

\* getNextId(array)
GetNextId(items) == IF Len(items) > 0 THEN SeqMax(items) + 1 ELSE 1

\* the confirm callback of deleteCourse(id)
DeleteCourse(d, id) ==
    LET KeepC(c) == ~StrictEq(c.id, id)
        KeepE(e) == ~StrictEq(e.courseId, id)
        ss == d.students.items
    IN  [d EXCEPT !.courses.items = SelectSeq(@, KeepC),
                  !.enrollments.items = SelectSeq(@, KeepE),
                  !.students.items =
                      [i \in DOMAIN ss |->
                          [ss[i] EXCEPT !.courses = Without(@, id)]]]

\* the confirm callback of deleteStudent(id)
DeleteStudent(d, id) ==
    LET KeepS(x) == ~StrictEq(x.id, id)
        KeepE(e) == ~StrictEq(e.studentId, id)
    IN  UpdateEnrollmentCounts(
            [d EXCEPT !.students.items = SelectSeq(@, KeepS),
                      !.enrollments.items = SelectSeq(@, KeepE)])

\* the confirm callback of deleteInstructor(id)
DeleteInstructor(d, id) ==
    LET KeepI(x) == ~StrictEq(x.id, id)
        cs == d.courses.items
    IN  [d EXCEPT !.instructors.items = SelectSeq(@, KeepI),
                  !.courses.items =
                      [i \in DOMAIN cs |->
                          IF StrictEq(cs[i].instructorId, id)
                          THEN [cs[i] EXCEPT !.instructorId = NoId,
                                             !.instructor = "Unassigned"]
                          ELSE cs[i]]]

\* handleCourseForm: editId is the hidden courseId field (NoId when empty),
\* instructorId the parsed select (NaNId when none is chosen)
HandleCourseForm(d, editId, instructorId, capacity, rnd) ==
    LET k == FindIndex(d.instructors.items, instructorId)
        iname == IF k # 0 THEN d.instructors.items[k].name ELSE "Unknown Instructor"
        index == FindIndex(d.courses.items, editId)
        newId == GetNextId(d.courses.items)
    IN  IF editId # NoId
        THEN IF index # 0
             THEN [d EXCEPT !.courses.items[index] =
                        Course(editId, instructorId, iname, capacity,
                               d.courses.items[index].enrolled, rnd.popularity)]
             ELSE d
        ELSE [d EXCEPT
                !.courses.items =
                    Append(@, Course(newId, instructorId, iname, capacity, 0,
                                     rnd.popularity)),
                !.instructors.items =
                    IF k # 0 /\ ~Includes(@[k].courses, newId)
                    THEN [@ EXCEPT ![k].courses = Append(@, newId)]
                    ELSE @]

\* handleStudentForm
HandleStudentForm(d, editId, name, level) ==
    LET index == FindIndex(d.students.items, editId)
    IN  IF editId # NoId
        THEN IF index # 0
             THEN [d EXCEPT !.students.items[index] =
                        Student(editId, name, TRUE,
                                d.students.items[index].courses, level)]
             ELSE d
        ELSE [d EXCEPT !.students.items =
                Append(@, Student(GetNextId(d.students.items), name, TRUE, <<>>, level))]

\* handleInstructorForm
HandleInstructorForm(d, editId, name, rnd) ==
    LET index == FindIndex(d.instructors.items, editId)
        cs == d.courses.items
    IN  IF editId # NoId
        THEN IF index # 0
             THEN [d EXCEPT
                    !.instructors.items[index] =
                        Instructor(editId, name, TRUE,
                                   IF d.instructors.items[index].hasCourses
                                   THEN d.instructors.items[index].courses ELSE <<>>,
                                   d.instructors.items[index].rating),
                    !.courses.items =
                        [i \in DOMAIN cs |->
                            IF StrictEq(cs[i].instructorId, editId)
                            THEN [cs[i] EXCEPT !.instructor = name]
                            ELSE cs[i]]]
             ELSE d
        ELSE [d EXCEPT !.instructors.items =
                Append(@, Instructor(GetNextId(d.instructors.items), name, TRUE,
                                     <<>>, rnd.rating))]

\* an Active enrollment of the student in the course exists
ExistingEnrollment(d, studentId, courseId) ==
    \E i \in DOMAIN d.enrollments.items :
        /\ StrictEq(d.enrollments.items[i].studentId, studentId)
        /\ StrictEq(d.enrollments.items[i].courseId, courseId)
        /\ d.enrollments.items[i].status = "Active"

\* an enrollment that leaves the enrolled counters as they are
Enroll_NoRecount(d, studentId, courseId, aiSuggested) ==
    LET k == FindIndex(d.students.items, studentId)
    IN  [d EXCEPT
            !.enrollments.items =
                Append(@, Enrollment(studentId, courseId, "Active", aiSuggested, 0)),
            !.students.items =
                IF k # 0 /\ ~Includes(@[k].courses, courseId)
                THEN [@ EXCEPT ![k].courses = Append(@, courseId)]
                ELSE @]

\* the push of a new enrollment, the student's courses list, the recount
Enroll(d, studentId, courseId, aiSuggested) ==
    LET k == FindIndex(d.students.items, studentId)
    IN  UpdateEnrollmentCounts(
            [d EXCEPT
                !.enrollments.items =
                    Append(@, Enrollment(studentId, courseId, "Active", aiSuggested, 0)),
                !.students.items =
                    IF k # 0 /\ ~Includes(@[k].courses, courseId)
                    THEN [@ EXCEPT ![k].courses = Append(@, courseId)]
                    ELSE @])

\* handleEnrollmentForm: [done, data]
HandleEnrollmentForm(d, studentId, courseId) ==
    LET c == FindIndex(d.courses.items, courseId)
    IN  IF ExistingEnrollment(d, studentId, courseId)
        THEN [done |-> FALSE, data |-> d]
        ELSE IF c # 0 /\ d.courses.items[c].enrolled >= d.courses.items[c].capacity
        THEN [done |-> FALSE, data |-> d]
        ELSE [done |-> TRUE, data |-> Enroll(d, studentId, courseId, "false")]

\* quickEnroll: [done, data]
QuickEnroll(d, studentId, courseId) ==
    LET k == FindIndex(d.students.items, studentId)
        c == FindIndex(d.courses.items, courseId)
    IN  IF k = 0 \/ c = 0 THEN [done |-> FALSE, data |-> d]
        ELSE IF ExistingEnrollment(d, studentId, courseId)
        THEN [done |-> FALSE, data |-> d]
        ELSE IF d.courses.items[c].enrolled >= d.courses.items[c].capacity
        THEN [done |-> FALSE, data |-> d]
        ELSE [done |-> TRUE, data |-> Enroll(d, studentId, courseId, "true")]

\* the confirm callback of unenrollStudent(studentId, courseId)
UnenrollStudent(d, studentId, courseId) ==
    LET k == FindIndex(d.students.items, studentId)
        KeepE(e) == ~(StrictEq(e.studentId, studentId) /\ StrictEq(e.courseId, courseId))
    IN  UpdateEnrollmentCounts(
            [d EXCEPT
                !.enrollments.items = SelectSeq(@, KeepE),
                !.students.items =
                    IF k # 0 THEN [@ EXCEPT ![k].courses = Without(@, courseId)]
                    ELSE @])

\* processImport and processImportedData on the pasted text: [status, data];
\* "imported" reaches saveData, "raised" is the catch handler after this.data
\* has been assigned, the others leave before it
ProcessImport(d, text, rnd) ==
    LET merged == Merge(d, text.doc)
        rep == ValidateAndRepairData(merged, rnd)
    IN  IF text.t = "empty" THEN [status |-> "nothing", data |-> d]
        ELSE IF text.t = "garbage" THEN [status |-> "unparseable", data |-> d]
        ELSE IF text.t = "nonobj" \/ ~Sniff(text.doc)
        THEN [status |-> "rejected", data |-> d]
        ELSE IF ~rep.ok THEN [status |-> "raised", data |-> rep.data]
        ELSE [status |-> "imported", data |-> UpdateEnrollmentCounts(rep.data)]

\* exportData: builds the download from this.data
ExportData(s) == s

\* ------------------------------------------------------- the page in use
\* an import document whose id-less second course takes the id of the first
DocDup ==
    [NoDoc EXCEPT
        !.courses = Arr(<< Course(2, NoId, "Unassigned", 1, 0, 70),
                           Course(NoId, NoId, "Unassigned", 3, 0, 80) >>),
        !.students = Arr(<< Student(1, "Ann", TRUE, <<2>>, "Advanced") >>),
        !.instructors = Arr(<<>>),
        !.enrollments = Arr(<< Enrollment(1, 2, "Active", "false", 10) >>)]

\* an import document with the three required keys only
DocBare ==
    [NoDoc EXCEPT
        !.courses = Arr(<< Course(9, NoId, "Unassigned", 4, 0, 70) >>),
        !.students = Arr(<< Student(1, "Ann", TRUE, <<9>>, "Advanced") >>),
        !.instructors = Arr(<<>>)]

\* what can be pasted into the import dialog
ImportTexts ==
    {EmptySlot, GarbageSlot, NonObjectSlot} \cup
    {JsonSlot(doc) :
        doc \in {DocA, DocB, DocNull, DocNoCourses, DocOdd, DocDup, DocBare}}

\* the stored records init() has loaded before the page is used
OpsStores == { <<AbsentSlot, AbsentSlot>>, <<JsonSlot(DocA), AbsentSlot>> }

\* the values Math.random() contributes while the page is used
OpsRnd == [popularity |-> 60, rating |-> 40, aiSuggested |-> "true", progress |-> 0]

\* an id no entity has
MissingId == 77

\* the ids a handler is called with: of the first and of the last entry of a
\* collection, and one that is absent
PickIds(items) ==
    {MissingId} \cup
    (IF Len(items) = 0 THEN {} ELSE {items[1].id, items[Len(items)].id})

\* every entry is an object and every student has a courses array
Sound(d) ==
    /\ \A key \in {"courses", "students", "instructors", "enrollments"} :
        \A i \in DOMAIN d[key].items : ~d[key].items[i].nul
    /\ \A i \in DOMAIN d.students.items : d.students.items[i].hasCourses
    /\ \A i \in DOMAIN d.instructors.items : d.instructors.items[i].hasCourses

\* the state init() leaves with storage available and the writes succeeding
OpsInit ==
    /\ store0 \in OpsStores
    /\ LET r == LoadData([data |-> ConstructorData, primary |-> store0[1],
                          backup |-> store0[2], lastSaveTime |-> NoTime,
                          backupTime |-> NoTime, rec |-> NoSave, src |-> "none",
                          doc |-> NoDoc],
                         TRUE, 1, OpsRnd, "ok")
       IN  /\ data = r.data
           /\ primary = r.primary
           /\ backup = r.backup
           /\ lastSaveTime = r.lastSaveTime
           /\ backupTime = r.backupTime
           /\ lastSave = r.rec
           /\ ev = [op |-> "load", saveCalled |-> r.rec.called, src |-> r.src,
                    doc |-> NoDoc]
           /\ aiEnabled = r.data.aiSettings.enabled
    /\ phase = "running"
    /\ storageAvailable = TRUE
    /\ temp = AbsentSlot
    /\ now = 1
    /\ startPending = FALSE
    /\ autoSaveInterval = [active |-> TRUE, due |-> 1 + AutoSaveMs]
    /\ saveTimeout = NoTimer
    /\ hidden = FALSE
    /\ prevSave = NoSave
    /\ failures = 0
    /\ events = 0
    /\ pending = NoPending
    /\ before = ConstructorData
    /\ assigned = HighWater(NoneAssigned, data)
    /\ scheduled = [NoneScheduled EXCEPT !.intervals = 1]
    /\ burst = NoBurst

\* a handler of the page may run: within the event budget, no confirm modal
\* open, and on a dataset no raising import has left half repaired
MayOperate == MayRun /\ pending = NoPending /\ Sound(data)

\* the time of the next handler
OpTime == now + AutoSaveMs

\* the handler named op left dataset d and returned without saveData()
Unsaved(d, op, src, doc) ==
    Commit([Cur EXCEPT !.data = d, !.src = src, !.doc = doc], op, OpTime)

\* a handler that ends without its saveData() call
Saved_Skipped(d, op, src) == Unsaved(d, op, src, NoDoc)

\* the handler named op left dataset d and called saveData()
Saved(d, op, src) ==
    \E outcome \in Outcomes :
        Commit([SaveData([Cur EXCEPT !.data = d], storageAvailable, FALSE, OpTime,
                         outcome) EXCEPT !.src = src], op, OpTime)

Frame == UNCHANGED <<page, timers>>

\* deleteCourse, deleteStudent, deleteInstructor up to showConfirmModal
RequestDelete ==
    /\ MayOperate
    /\ \E kind \in {"courses", "students", "instructors"} :
        \E id \in PickIds(data[kind].items) :
            /\ FindIndex(data[kind].items, id) # 0
            /\ pending' = [NoPending EXCEPT !.kind = kind, !.id = id]
    /\ ev' = [NoEvent EXCEPT !.op = "request"]
    /\ before' = data
    /\ UNCHANGED <<page, mem, timers, store0, lastSave, prevSave, backupTime,
                   assigned, burst, failures, events, now>>

\* a delete call naming an id no entity has: the handler returns at once
DeleteMissing ==
    /\ MayOperate
    /\ \E kind \in {"courses", "students", "instructors"} :
        /\ FindIndex(data[kind].items, MissingId) = 0
        /\ Unsaved(data, "deleteMissing", kind, NoDoc)
    /\ UNCHANGED pending
    /\ Frame

\* unenrollStudent up to showConfirmModal
RequestUnenroll ==
    /\ MayOperate
    /\ \E sid \in PickIds(data.students.items), cid \in PickIds(data.courses.items) :
        pending' = [NoPending EXCEPT !.kind = "unenroll",
                                     !.studentId = sid, !.courseId = cid]
    /\ ev' = [NoEvent EXCEPT !.op = "request"]
    /\ before' = data
    /\ UNCHANGED <<page, mem, timers, store0, lastSave, prevSave, backupTime,
                   assigned, burst, failures, events, now>>

\* the dataset the pending confirm callback leaves
Confirmed ==
    CASE pending.kind = "courses" -> DeleteCourse(data, pending.id)
      [] pending.kind = "students" -> DeleteStudent(data, pending.id)
      [] pending.kind = "instructors" -> DeleteInstructor(data, pending.id)
      [] pending.kind = "unenroll" ->
            UnenrollStudent(data, pending.studentId, pending.courseId)

\* a click on the confirm button
Confirm ==
    /\ MayRun
    /\ pending # NoPending
    /\ Saved(Confirmed,
             IF pending.kind = "unenroll" THEN "unenroll" ELSE "delete",
             pending.kind)
    /\ pending' = NoPending
    /\ Frame

\* the confirm modal is closed without the confirm button
Cancel ==
    /\ MayRun
    /\ pending # NoPending
    /\ Unsaved(data, "cancel", pending.kind, NoDoc)
    /\ pending' = NoPending
    /\ Frame

SubmitCourseForm ==
    /\ MayOperate
    /\ \E editId \in {NoId} \cup (PickIds(data.courses.items) \ {MissingId}),
          instructorId \in {NaNId} \cup (PickIds(data.instructors.items) \ {MissingId}) :
        Saved(HandleCourseForm(data, editId, instructorId, 1, OpsRnd),
              "courseForm", IF editId = NoId THEN "add" ELSE "edit")
    /\ UNCHANGED pending
    /\ Frame

SubmitStudentForm ==
    /\ MayOperate
    /\ \E editId \in {NoId} \cup (PickIds(data.students.items) \ {MissingId}) :
        Saved(HandleStudentForm(data, editId, "Zoe", "Intermediate"),
              "studentForm", IF editId = NoId THEN "add" ELSE "edit")
    /\ UNCHANGED pending
    /\ Frame

SubmitInstructorForm ==
    /\ MayOperate
    /\ \E editId \in {NoId} \cup (PickIds(data.instructors.items) \ {MissingId}) :
        Saved(HandleInstructorForm(data, editId, "Lee", OpsRnd),
              "instructorForm", IF editId = NoId THEN "add" ELSE "edit")
    /\ UNCHANGED pending
    /\ Frame

SubmitEnrollmentForm ==
    /\ MayOperate
    /\ \E sid \in {NaNId} \cup (PickIds(data.students.items) \ {MissingId}),
          cid \in {NaNId} \cup (PickIds(data.courses.items) \ {MissingId}) :
        LET r == HandleEnrollmentForm(data, sid, cid)
        IN  IF r.done THEN Saved(r.data, "enroll", "form")
            ELSE Unsaved(data, "enrollRefused", "form", NoDoc)
    /\ UNCHANGED pending
    /\ Frame

DoQuickEnroll ==
    /\ MayOperate
    /\ \E sid \in PickIds(data.students.items), cid \in PickIds(data.courses.items) :
        LET r == QuickEnroll(data, sid, cid)
        IN  IF r.done THEN Saved(r.data, "enroll", "quick")
            ELSE Unsaved(data, "enrollRefused", "quick", NoDoc)
    /\ UNCHANGED pending
    /\ Frame

DoImport ==
    /\ MayOperate
    /\ \E text \in ImportTexts :
        LET r == ProcessImport(data, text, OpsRnd)
        IN  IF r.status = "imported"
            THEN \E outcome \in Outcomes :
                    Commit([SaveData([Cur EXCEPT !.data = r.data], storageAvailable,
                                     FALSE, OpTime, outcome)
                                EXCEPT !.src = r.status, !.doc = text.doc],
                           "import", OpTime)
            ELSE Unsaved(r.data, "import", r.status, text.doc)
    /\ UNCHANGED pending
    /\ Frame

DoExport ==
    /\ MayOperate
    /\ Unsaved(ExportData(Cur).data, "export", "none", NoDoc)
    /\ UNCHANGED pending
    /\ Frame

\* toggleAI while the page is in use
ToggleDuringUse ==
    /\ MayRun
    /\ pending = NoPending
    /\ aiEnabled' = ~aiEnabled
    /\ \E outcome \in Outcomes :
        Commit(ToggleAI(Cur, storageAvailable, aiEnabled', OpTime, outcome),
               "toggleAI", OpTime)
    /\ UNCHANGED <<phase, storageAvailable, hidden, timers, pending>>

OpsNext ==
    \/ RequestDelete
    \/ DeleteMissing
    \/ RequestUnenroll
    \/ Confirm
    \/ Cancel
    \/ SubmitCourseForm
    \/ SubmitStudentForm
    \/ SubmitInstructorForm
    \/ SubmitEnrollmentForm
    \/ DoQuickEnroll
    \/ DoImport
    \/ DoExport
    \/ ToggleDuringUse

OpsSpec == OpsInit /\ [][OpsNext]_vars

\* ------------------------- every place validateAndRepairData is applied
\* the repair pass on its own inputs together with the page in use, where
\* processImportedData applies it to the merged dataset
IntegrityInit == RepairInit \/ OpsInit

IntegrityNext == RepairNext \/ OpsNext

IntegritySpec == IntegrityInit /\ [][IntegrityNext]_vars

\* ------------------------------------------------- the timers at their due times
\* The debounce timeout and the periodic interval with the clock kept exact: a
\* callback runs at the time it is due, and an input event arrives only while
\* no callback is overdue.
\* the time from one input event to the next: within the debounce delay, equal
\* to it, beyond it, and just short of the period
Gaps == {DebounceMs - 1000, DebounceMs, DebounceMs + 1000, AutoSaveMs - 1000}

\* the times at which a scheduled callback is due
DueTimes ==
    scheduled.timeouts \cup
    (IF autoSaveInterval.active THEN {autoSaveInterval.due} ELSE {})

\* the page is up, its timers started, within the event budget
TimersRun == phase = "running" /\ ~startPending /\ events < MaxTimerEvents

\* an input or change event: debouncedSave
KeyStroke ==
    /\ TimersRun
    /\ \E g \in Gaps :
        /\ \A d \in DueTimes : d > now + g
        /\ saveTimeout' = DebouncedSave(scheduled, saveTimeout, now + g).handle
        /\ scheduled' = DebouncedSave(scheduled, saveTimeout, now + g).sched
        /\ burst' = Extended(burst, now + g)
        /\ now' = now + g
    /\ events' = events + 1
    /\ ev' = [NoEvent EXCEPT !.op = "input"]
    /\ UNCHANGED <<page, mem, startPending, autoSaveInterval, store0, lastSave,
                   prevSave, backupTime, before, assigned, failures, pending>>

\* the callback of a debounce timeout, at the time it is due
TimeoutCallback ==
    /\ TimersRun
    /\ \E d \in scheduled.timeouts, outcome \in Outcomes :
        /\ \A x \in DueTimes : d <= x
        /\ Commit(OnTimer(Cur, storageAvailable, d, outcome), "debounce", d)
        /\ scheduled' = [scheduled EXCEPT !.timeouts = @ \ {d}]
        /\ saveTimeout' = IF saveTimeout.due = d THEN NoTimer ELSE saveTimeout
    /\ UNCHANGED <<page, startPending, autoSaveInterval, pending>>

\* the callback of the periodic interval, at the time it is due
IntervalCallback ==
    /\ TimersRun
    /\ autoSaveInterval.active
    /\ \A x \in DueTimes : autoSaveInterval.due <= x
    /\ \E outcome \in Outcomes :
        Commit(OnTimer(Cur, storageAvailable, autoSaveInterval.due, outcome),
               "autosave", autoSaveInterval.due)
    /\ autoSaveInterval' = [autoSaveInterval EXCEPT !.due = @ + AutoSaveMs]
    /\ UNCHANGED <<page, startPending, saveTimeout, scheduled, pending>>

TimersNext ==
    \/ InitApp
    \/ StartAutoSave
    \/ KeyStroke
    \/ TimeoutCallback
    \/ IntervalCallback

TimersSpec == Init /\ [][TimersNext]_vars

\* ------------------------------------------------------------------ claims
\* init() has just run: this.data is what loadData left
Loaded == ev.op = "load"

\* the stored value is JSON of an object whose courses, students and
\* instructors are present and truthy
PassesSniff(slot) ==
    /\ slot.t = "json"
    /\ \A key \in {"courses", "students", "instructors"} :
        slot.doc[key].k \notin {"absent", "falsy"}

HasNullEntry(doc) ==
    \E key \in {"courses", "students", "instructors", "enrollments"} :
        doc[key].k = "arr" /\ \E i \in DOMAIN doc[key].items : doc[key].items[i].nul

\* a record the whole of loadData accepts
ValidRecord(slot) == PassesSniff(slot) /\ ~HasNullEntry(slot.doc)

\* a record that passes the sniff and on which the repair pass raises
RaisingRecord(slot) == PassesSniff(slot) /\ HasNullEntry(slot.doc)

\* the dataset loadData derives from a stored document
LoadedFrom(doc, rnd) ==
    UpdateEnrollmentCounts(ValidateAndRepairData(Merge(ConstructorData, doc), rnd).data)

DerivedFrom(slot) == \E rnd \in Rnd : data = LoadedFrom(slot.doc, rnd)

Size(slot, key) == Len(slot.doc[key].items)

HoldsSeed(slot) ==
    /\ slot.t = "json"
    /\ Size(slot, "courses") = 5
    /\ Size(slot, "students") = 5
    /\ Size(slot, "instructors") = 5
    /\ Size(slot, "enrollments") = 10

\* C1 (as claimed): after a first-run load() (storage available, writes
\* succeed, both slots absent) the live dataset is the repaired seed and both
\* slots hold the serialization of the seed dataset, with its 5 courses,
\* 5 students, 5 instructors and 10 enrollments.
C1_SeedPersisted ==
    (Loaded /\ storageAvailable /\ ~lastSave.failed
        /\ store0 = <<AbsentSlot, AbsentSlot>>)
    => /\ DerivedFrom(JsonSlot(GetInitialData))
       /\ HoldsSeed(primary)
       /\ HoldsSeed(backup)

\* C2 (as claimed): load() takes the first usable source: a valid primary
\* record gives the repaired primary whatever the backup holds; a primary
\* that is absent, unparseable or fails the sniff, with a valid backup, gives
\* the repaired backup.
C2_FallbackOrder_AsClaimed ==
    Loaded =>
        /\ ValidRecord(store0[1]) => DerivedFrom(store0[1])
        /\ (~PassesSniff(store0[1]) /\ ValidRecord(store0[2])) => DerivedFrom(store0[2])

\* C2 (amended): the same when the storage probe succeeded; when it failed,
\* load() reads neither slot.
C2_FallbackOrder ==
    (Loaded /\ storageAvailable) =>
        /\ ValidRecord(store0[1]) => (ev.src = "primary" /\ DerivedFrom(store0[1]))
        /\ (~PassesSniff(store0[1]) /\ ValidRecord(store0[2]))
            => (ev.src = "backup" /\ DerivedFrom(store0[2]))

C2_Witness ==
    /\ Loaded /\ storageAvailable
    /\ store0[1] = GarbageSlot /\ ValidRecord(store0[2])
    /\ ev.src = "backup"
    /\ Len(data.courses.items) = 1

\* C3 (as claimed): when the primary record passes the sniff and the repair
\* pass raises on it, load() treats the primary as a miss and continues with
\* the backup record: with a valid backup the live dataset is the repaired
\* backup.
C3_RaisingPrimaryFallsBackToBackup ==
    (Loaded /\ storageAvailable /\ RaisingRecord(store0[1]) /\ ValidRecord(store0[2]))
    => DerivedFrom(store0[2])

\* C4 (as claimed): after load(), along any of its paths, every course's
\* enrolled equals the number of Active enrollments of that course.
C4_EnrolledCountAfterLoad ==
    Loaded =>
        \A i \in DOMAIN data.courses.items :
            data.courses.items[i].enrolled =
                Cardinality({j \in DOMAIN data.enrollments.items :
                    /\ data.enrollments.items[j].courseId = data.courses.items[i].id
                    /\ data.enrollments.items[j].status = "Active"})

\* the last handler called saveData(force = FALSE) and every write it
\* attempted succeeded
SavedUnforced ==
    ev.saveCalled /\ ~lastSave.force /\ storageAvailable /\ ~lastSave.failed

\* C5 (as claimed): a save(force = FALSE) more than 300 seconds after the
\* last write of the backup slot also writes the backup slot.
C5_BackupRefreshedAfterInterval ==
    (SavedUnforced /\ lastSave.bkTimeBefore # NoTime
        /\ lastSave.at - lastSave.bkTimeBefore > BackupIntervalMs)
    => (lastSave.wroteB /\ backup = JsonStringify(data))

\* C6 (as claimed): while the backup slot is absent, the next successful
\* save(force = FALSE) writes the backup slot.
C6_FirstSaveCreatesBackup ==
    (SavedUnforced /\ lastSave.ret /\ lastSave.bkSlotBefore = "absent")
    => (lastSave.wroteB /\ backup # AbsentSlot)

\* two consecutive save(force = FALSE) calls less than 300 seconds apart
TwoUnforcedSaves ==
    /\ prevSave.called /\ ~prevSave.force
    /\ lastSave.called /\ ~lastSave.force
    /\ lastSave.at - prevSave.at < BackupIntervalMs

\* C7 (as claimed): of two consecutive save(force = FALSE) calls less than
\* 300 seconds apart both write the primary slot and the second never writes
\* the backup slot.
C7_BackupThrottle_AsClaimed ==
    TwoUnforcedSaves => (prevSave.wroteP /\ lastSave.wroteP /\ ~lastSave.wroteB)

\* C7 (amended): when the first of the two calls returned true, the second
\* does not write the backup slot, and each of the two that returns true has
\* written the primary slot.
C7_BackupThrottle ==
    (TwoUnforcedSaves /\ prevSave.ret)
    => /\ ~lastSave.wroteB
       /\ prevSave.wroteP
       /\ lastSave.ret => (lastSave.wroteP /\ primary = JsonStringify(data))

C7_Witness ==
    /\ TwoUnforcedSaves /\ prevSave.ret /\ lastSave.ret
    /\ prevSave.wroteB /\ lastSave.wroteP
    /\ lastSave.at - prevSave.at = AutoSaveMs
    /\ backup # primary

\* C8 (as claimed): save() returns true exactly when the write of the primary
\* slot succeeded.
C8_ReturnsPrimarySuccess ==
    lastSave.called => (lastSave.ret <=> lastSave.wroteP)

\* C9: when the storage probe failed, every save() returns false and writes
\* neither slot, and load() makes the seed dataset live without any write.
C9_AvailabilityGate ==
    (phase # "boot" /\ ~storageAvailable)
    => /\ primary = store0[1] /\ backup = store0[2]
       /\ lastSave.called => (~lastSave.ret /\ ~lastSave.wroteP /\ ~lastSave.wroteB)
       /\ Loaded => (ev.src = "seed" /\ DerivedFrom(JsonSlot(GetInitialData)))

C9_Witness ==
    /\ ~storageAvailable
    /\ ev.op = "unload" /\ lastSave.called /\ lastSave.force
    /\ prevSave.called /\ prevSave.at > 1
    /\ ValidRecord(store0[1])
    /\ Len(data.courses.items) = 5

\* C10: a page unload and a visibility change to hidden each call
\* save(force = TRUE): with storage available and the writes succeeding both
\* slots then hold the serialization of the live dataset; a visibility change
\* to visible calls no save.
C10_ForcedSaveOnTeardown ==
    /\ ev.op \in {"unload", "hidden"} =>
        /\ ev.saveCalled /\ lastSave.force
        /\ (storageAvailable /\ ~lastSave.failed) =>
            /\ lastSave.ret /\ lastSave.wroteP /\ lastSave.wroteB
            /\ primary = JsonStringify(data)
            /\ backup = JsonStringify(data)
    /\ ev.op = "visible" => ~ev.saveCalled

C10_Witness ==
    /\ ev.op = "unload" /\ storageAvailable /\ ~lastSave.failed
    /\ prevSave.called /\ prevSave.ret /\ ~prevSave.wroteB
    /\ prevSave.at = lastSave.at
    /\ backup = JsonStringify(data) /\ backup # store0[2]

\* ------------------------------------------------- claims on the repair pass
\* validateAndRepairData has just run on this.data and did not raise
Repaired == ev.op = "repair" /\ ev.src = "ok"

\* the entries of a collection as forEach / filter would see them before the
\* pass: none when the value is not an array
Items(c) == IF c.k = "arr" THEN c.items ELSE <<>>

\* C13: a second pass of repair changes nothing: no collection, no entity
\* field and no settings field differs from what the first pass left.
C13_RepairIdempotent ==
    (ev.op = "repair" /\ events >= 2) => data = before

C13_Witness ==
    /\ Repaired /\ events = 2
    /\ data = before
    /\ Len(data.courses.items) = 2 /\ data.courses.items[1].popularity = 99
    /\ Len(data.students.items) = 2 /\ data.students.items[1].level = "Beginner"
    /\ Len(data.enrollments.items) >= 1
    /\ data.enrollments.items[1].aiSuggested = "false"
    /\ data.aiSettings = DefaultAiSettings

\* x is the id entry i of the collection has after the backfill
IdAfterBackfill(items, i, x) ==
    /\ ~items[i].nul
    /\ x = IF items[i].id = NoId THEN i ELSE items[i].id

\* row e of the input names an id-less student or course by its position
NamesPosition(e) ==
    \/ \E i \in DOMAIN Items(before.students) :
        Items(before.students)[i].id = NoId /\ e.studentId = i
    \/ \E j \in DOMAIN Items(before.courses) :
        Items(before.courses)[j].id = NoId /\ e.courseId = j

\* C14: the first pass gives every id-less course, student and instructor its
\* 1-based position as id, whatever the random defaults, and an enrollment
\* row that names an id-less student or course by position (its other side
\* resolving too) is still there after that pass.
C14_BackfillBeforeFilter ==
    (Repaired /\ events = 1) =>
        /\ \A key \in {"courses", "students", "instructors"} :
            \A i \in DOMAIN Items(before[key]) :
                Items(before[key])[i].id = NoId => data[key].items[i].id = i
        /\ \A r \in DOMAIN Items(before.enrollments) :
            LET e == Items(before.enrollments)[r]
            IN  ( /\ NamesPosition(e)
                  /\ \E i \in DOMAIN Items(before.students) :
                        IdAfterBackfill(Items(before.students), i, e.studentId)
                  /\ \E j \in DOMAIN Items(before.courses) :
                        IdAfterBackfill(Items(before.courses), j, e.courseId) )
                => \E k \in DOMAIN data.enrollments.items :
                    /\ data.enrollments.items[k].studentId = e.studentId
                    /\ data.enrollments.items[k].courseId = e.courseId
                    /\ data.enrollments.items[k].status = e.status

C14_Witness ==
    /\ Repaired /\ events = 1
    /\ Len(Items(before.students)) = 2 /\ Items(before.students)[2].id = NoId
    /\ Len(Items(before.courses)) = 2 /\ Items(before.courses)[2].id = NoId
    /\ data.students.items[2].id = 2 /\ data.courses.items[2].id = 2
    /\ \E k \in DOMAIN data.enrollments.items :
        /\ data.enrollments.items[k].studentId = 2
        /\ data.enrollments.items[k].courseId = 2

\* the dataset the last repair pass was applied to: this.data for a pass on
\* its own, the imported document merged over this.data for an import
RepairInput == IF ev.op = "import" THEN Merge(before, ev.doc) ELSE before

\* a repair pass has just completed without raising, on its own or in an import
RepairDone == Repaired \/ (ev.op = "import" /\ ev.src = "imported")

\* the identity of an enrollment row
RowKey(e) == <<e.studentId, e.courseId, e.status>>

\* C12: after a completed repair pass (on its own or within an import) the
\* enrollments are exactly the rows of the input, in their order, whose
\* studentId is the id of a student and whose courseId is the id of a course
\* of the repaired collections.
C12_ReferentialClosure ==
    RepairDone =>
        LET Resolves(e) ==
                /\ ~e.nul
                /\ \E i \in DOMAIN data.students.items :
                    data.students.items[i].id = e.studentId
                /\ \E j \in DOMAIN data.courses.items :
                    data.courses.items[j].id = e.courseId
            kept == SelectSeq(Items(RepairInput.enrollments), Resolves)
        IN  /\ Len(data.enrollments.items) = Len(kept)
            /\ \A k \in DOMAIN kept :
                RowKey(data.enrollments.items[k]) = RowKey(kept[k])
            /\ \A k \in DOMAIN data.enrollments.items :
                Resolves(data.enrollments.items[k])

C12_Witness ==
    /\ ev.op = "import" /\ ev.src = "imported"
    /\ ev.doc.enrollments.k = "arr"
    /\ Len(ev.doc.enrollments.items) = 3
    /\ Len(data.enrollments.items) = 2
    /\ \E k \in DOMAIN ev.doc.enrollments.items :
        ev.doc.enrollments.items[k].studentId = 999

\* C11 (as claimed): after exportData() both slots hold the serialization of
\* the live dataset, export having called save(force = TRUE).
C11_ExportForcesSave ==
    (ev.op = "export" /\ storageAvailable)
    => /\ ev.saveCalled /\ lastSave.force
       /\ primary = JsonStringify(data)
       /\ backup = JsonStringify(data)

\* an import has just been accepted and completed
Imported == ev.op = "import" /\ ev.src = "imported"

\* C15 (as claimed): after a successful import every top-level collection the
\* document omits has its default empty value: nothing of the categories and
\* enrollments of the dataset that was live before remains.
C15_ImportOverDefaults ==
    Imported =>
        \A key \in {"categories", "enrollments"} :
            ev.doc[key].k = "absent" => data[key].items = <<>>

\* C16 (as claimed): an import that is rejected or raises leaves the live
\* dataset as it was and writes neither slot.
C16_FailedImportNoEffect ==
    (ev.op = "import" /\ ev.src # "imported")
    => (data = before /\ ~ev.saveCalled)

\* the confirm button is being clicked on the modal deleteCourse(id) opened
ConfirmsCourseDelete == pending.kind = "courses" /\ ev'.op = "delete"

\* C17 (as claimed): a confirmed deletion of course c (the course
\* deleteCourse(id) found) removes c and nothing else from courses, removes
\* exactly the enrollments of c.id, strips c.id from every student's courses
\* list and leaves the instructors alone; a cancelled request and a request
\* naming no course change nothing.
C17_CascadeOnCourseDelete ==
    [][ /\ ConfirmsCourseDelete =>
            LET id == pending.id
                c == FindIndex(data.courses.items, id)
                cs == data.courses.items
                KeepE(e) == e.courseId # id
                KeepId(x) == x # id
            IN  /\ data'.courses.items =
                    [i \in 1..(Len(cs) - 1) |-> IF i < c THEN cs[i] ELSE cs[i + 1]]
                /\ data'.enrollments.items = SelectSeq(data.enrollments.items, KeepE)
                /\ Len(data'.students.items) = Len(data.students.items)
                /\ \A i \in DOMAIN data.students.items :
                    data'.students.items[i] =
                        [data.students.items[i] EXCEPT !.courses = SelectSeq(@, KeepId)]
                /\ data'.instructors = data.instructors
        /\ (ev'.op \in {"cancel", "deleteMissing"}) =>
            (data' = data /\ primary' = primary /\ backup' = backup)
      ]_vars

\* a mutating operation has just completed
Mutated ==
    \/ ev.op \in {"courseForm", "studentForm", "instructorForm", "delete",
                  "enroll", "unenroll", "toggleAI"}
    \/ Imported

\* C18: after each completed mutating operation, with storage available and
\* the write succeeding, the primary slot holds the serialization of the live
\* dataset as the operation left it.
C18_MutationsPersisted ==
    (Mutated /\ storageAvailable)
    => /\ ev.saveCalled
       /\ ~lastSave.failed => (lastSave.ret /\ primary = JsonStringify(data))

C18_Witness ==
    /\ ev.op = "enroll" /\ storageAvailable /\ ~lastSave.failed
    /\ data # before
    /\ prevSave.called /\ prevSave.failed
    /\ primary = JsonStringify(data)

\* C19 (as claimed): a third slot (storageKeys.temp) is written by every
\* successful save and is the source of load() when neither the primary nor
\* the backup slot yields a record, before the seed.
C19_ThirdSlot ==
    /\ (ev.saveCalled /\ lastSave.ret) => temp = JsonStringify(data)
    /\ (Loaded /\ storageAvailable /\ ~PassesSniff(store0[1])
            /\ ~PassesSniff(store0[2]) /\ ValidRecord(temp))
        => DerivedFrom(temp)

\* every course's enrolled counter equals the number of its Active enrollments
EnrolledOK ==
    \A i \in DOMAIN data.courses.items :
        data.courses.items[i].nul \/
        data.courses.items[i].enrolled =
            Cardinality({j \in DOMAIN data.enrollments.items :
                /\ ~data.enrollments.items[j].nul
                /\ data.enrollments.items[j].courseId = data.courses.items[i].id
                /\ data.enrollments.items[j].status = "Active"})

Ids(c) == {c.items[i].id : i \in DOMAIN c.items}

\* every enrollment names a student and a course of the dataset
RefOK(d) ==
    \A i \in DOMAIN d.enrollments.items :
        /\ d.enrollments.items[i].studentId \in Ids(d.students)
        /\ d.enrollments.items[i].courseId \in Ids(d.courses)

\* C21 (as claimed): after every completed operation on a repaired dataset
\* every enrollment names an existing student and an existing course, and an
\* enrollment request naming a student or a course that does not exist adds
\* no row.
C21_EnrollmentsReferToEntities ==
    /\ Sound(data) => RefOK(data)
    /\ (ev.op = "enroll" /\ ~RefOK(data)) => ~RefOK(before)

\* the enrollment request that has just been accepted: the row it pushed
Pushed == data.enrollments.items[Len(data.enrollments.items)]

\* the Active rows of the student in the course
ActiveRows(d, sid, cid) ==
    {i \in DOMAIN d.enrollments.items :
        /\ d.enrollments.items[i].studentId = sid
        /\ d.enrollments.items[i].courseId = cid
        /\ d.enrollments.items[i].status = "Active"}

\* no student has two Active enrollments in one course
NoDuplicateActive(d) ==
    \A i \in DOMAIN d.enrollments.items :
        Cardinality(ActiveRows(d, d.enrollments.items[i].studentId,
                               d.enrollments.items[i].courseId)) <= 1

\* C22 (as claimed): a refused enrollment request leaves the dataset and the
\* slots as they were; a request is accepted only when the student has no
\* Active enrollment in the course and the course is below its capacity, so
\* an accepted request adds no second Active row of a pair and leaves no
\* course of that id above its capacity.
C22_EnrollmentGate ==
    /\ ev.op = "enrollRefused" => (data = before /\ ~ev.saveCalled)
    /\ ev.op = "enroll" =>
        /\ ActiveRows(before, Pushed.studentId, Pushed.courseId) = {}
        /\ NoDuplicateActive(before) => NoDuplicateActive(data)
        /\ \A i \in DOMAIN data.courses.items :
            data.courses.items[i].id = Pushed.courseId =>
                /\ before.courses.items[i].enrolled < before.courses.items[i].capacity
                /\ data.courses.items[i].enrolled <= data.courses.items[i].capacity

\* the ids of a collection are pairwise distinct positive integers
DistinctIds(c) ==
    \A i \in DOMAIN c.items :
        /\ c.items[i].id > 0
        /\ \A j \in DOMAIN c.items : c.items[i].id = c.items[j].id => i = j

\* C23 (as claimed): after a completed repair pass (in load or import) and
\* after every add and delete that follows, the ids within courses, within
\* students and within instructors are pairwise distinct positive integers.
C23_IdsUnique ==
    (ev.op # "none" /\ ev.src # "raised")
    => \A key \in {"courses", "students", "instructors"} : DistinctIds(data[key])

\* an add through one of the three entity forms is being completed
Adds(key) ==
    ev'.src = "add" /\
    ev'.op = (CASE key = "courses" -> "courseForm"
                [] key = "students" -> "studentForm"
                [] key = "instructors" -> "instructorForm")

\* the id the add gave the new entity
NewId(key) == data'[key].items[Len(data'[key].items)].id

\* the course ids the reference lists of students and instructors name
Referenced(d) ==
    UNION ({{d.students.items[i].courses[j] : j \in DOMAIN d.students.items[i].courses} :
                i \in DOMAIN d.students.items}
           \cup
           {{d.instructors.items[i].courses[j] : j \in DOMAIN d.instructors.items[i].courses} :
                i \in DOMAIN d.instructors.items})

\* C24 (as claimed): the id an add gives a new course, student or instructor
\* is greater than every id its collection has held in the history of the
\* dataset, and a new course's id is named by no reference list written before
\* the course existed.
C24_IdsNeverReused ==
    [][ /\ \A key \in {"courses", "students", "instructors"} :
            Adds(key) => NewId(key) > assigned[key]
        /\ Adds("courses") => NewId("courses") \notin Referenced(data)
      ]_vars

\* the course ids of the Active enrollments of the student
ActiveCoursesOf(d, sid) ==
    {d.enrollments.items[i].courseId :
        i \in {j \in DOMAIN d.enrollments.items :
                /\ d.enrollments.items[j].studentId = sid
                /\ d.enrollments.items[j].status = "Active"}}

\* every student's courses list names exactly the courses of the student's
\* Active enrollments
CourseListsOK(d) ==
    \A i \in DOMAIN d.students.items :
        {d.students.items[i].courses[j] : j \in DOMAIN d.students.items[i].courses}
            = ActiveCoursesOf(d, d.students.items[i].id)

\* C25 (as claimed): after load() has completed, each student's courses list
\* contains exactly the courseIds of the student's Active enrollments.
C25_StudentCourseLists ==
    (Loaded /\ Sound(data)) => CourseListsOK(data)

\* every course is unassigned (null instructorId, "Unassigned") or names an
\* instructor of the dataset and carries that instructor's name
InstructorRefsOK(d) ==
    \A i \in DOMAIN d.courses.items :
        \/ /\ d.courses.items[i].instructorId = NoId
           /\ d.courses.items[i].instructor = "Unassigned"
        \/ \E k \in DOMAIN d.instructors.items :
            /\ d.instructors.items[k].id = d.courses.items[i].instructorId
            /\ d.instructors.items[k].name = d.courses.items[i].instructor

\* C26 (as claimed): a completed repair pass (in load or import), an add or
\* edit of a course and an edit or confirmed delete of an instructor leave
\* every course unassigned or naming an existing instructor under the
\* instructor's current name, and deleting an instructor removes no course.
C26_InstructorSync ==
    /\ RepairDone => InstructorRefsOK(data)
    /\ (/\ ev.op \in {"courseForm", "instructorForm"}
           \/ (ev.op = "delete" /\ ev.src = "instructors")
        /\ InstructorRefsOK(before))
       => InstructorRefsOK(data)
    /\ (ev.op = "delete" /\ ev.src = "instructors")
       => Len(data.courses.items) = Len(before.courses.items)

\* every instructor's courses list names exactly the courses whose
\* instructorId is the instructor's id
TaughtListsOK(d) ==
    \A k \in DOMAIN d.instructors.items :
        {d.instructors.items[k].courses[j] : j \in DOMAIN d.instructors.items[k].courses}
            = {d.courses.items[i].id :
                i \in {j \in DOMAIN d.courses.items :
                        d.courses.items[j].instructorId = d.instructors.items[k].id}}

\* C27 (as claimed): an add, an edit and a confirmed deletion of a course
\* keep every instructor's courses list equal to the set of ids of the courses
\* assigned to that instructor.
C27_InstructorCourseLists ==
    (/\ ev.op = "courseForm" \/ (ev.op = "delete" /\ ev.src = "courses")
     /\ TaughtListsOK(before))
    => TaughtListsOK(data)

\* C28: at most one debounce timeout is pending; a debounce-triggered save
\* runs exactly DebounceMs after the latest input event and is the only one
\* since that event; and when an input event arrives DebounceMs or more after
\* the one before, the burst that ended there has had its one save.
C28_DebouncedSave ==
    [][ /\ Cardinality(scheduled'.timeouts) <= 1
        /\ ev'.op = "debounce" =>
            (now' = burst'.last + DebounceMs /\ burst'.saves = 1 /\ ~lastSave'.force)
        /\ (ev'.op = "input" /\ burst.last # NoTime /\ now' - burst.last >= DebounceMs)
            => burst.saves = 1
        /\ (ev'.op = "input" /\ burst.last # NoTime /\ now' - burst.last < DebounceMs)
            => burst.saves = 0
      ]_vars

C28_Witness ==
    /\ ev.op = "debounce"
    /\ burst.size >= 2
    /\ burst.saves = 1
    /\ lastSave.called /\ ~lastSave.force /\ lastSave.at = burst.last + DebounceMs

\* a timer callback is completing
TimerSaves == ev'.op \in {"autosave", "debounce"}

\* C29: a save issued by the periodic or the debounce timer never changes the
\* live dataset; when it succeeds the primary slot holds the whole snapshot;
\* issued when the primary slot already holds the snapshot it leaves the
\* primary slot as it is and the backup slot either as it is or equal to the
\* snapshot; and at most one periodic timer runs.
C29_RedundantSaves ==
    [][ /\ TimerSaves =>
            /\ data' = data
            /\ lastSave'.ret => primary' = JsonStringify(data)
            /\ primary = JsonStringify(data) =>
                (primary' = primary /\ backup' \in {backup, primary})
        /\ scheduled'.intervals <= 1
      ]_vars

C29_Witness ==
    /\ ev.op = "debounce"
    /\ prevSave.called /\ prevSave.ret /\ ~prevSave.force
    /\ lastSave.ret
    /\ lastSave.at - prevSave.at = DebounceMs - 1000
    /\ primary = JsonStringify(data)
    /\ scheduled.intervals = 1

\* C30 (as claimed): whenever the backup slot holds a valid record before
\* load(), it holds the same record after load(), whatever the primary slot
\* contained.
C30_LoadKeepsUsableBackup ==
    (Loaded /\ ValidRecord(store0[2])) => backup = store0[2]

====
